---------------------------- MODULE Spec2Model ----------------------------
(***************************************************************************)
(* The tiger POMDP of pomdp_tiger.ipynb, discretised on a belief grid:     *)
(* the observation model, the Bayesian update, nearest_idx, tiger_mdp      *)
(* (reward vector, triplet buffers, duplicate merging, index vectors) and  *)
(* the solve/plot cells.  Floating-point values are modelled as exact      *)
(* rationals <<numerator, denominator>> in lowest terms.                   *)
(***************************************************************************)
EXTENDS Integers, Sequences, FiniteSets, TLC

VARIABLES
    belief_grid,   \* the grid handed to tiger_mdp / nearest_idx (0-based via At)
    pc,            \* position in the notebook: "grid", "built", "solved",
                   \* "plotted", or "plot_error" (IndexError in the plot cell)
    mdp,           \* what tiger_mdp returned (NoMdp before the call)
    res,           \* what mdp.solve returned (NoRes before the call)
    cutoffs,       \* the two policy cutoffs computed by the plot cell
    probe,         \* the last direct call of a pure function and its result
    harness        \* the state of a call of compare_performance

vars == <<belief_grid, pc, mdp, res, cutoffs, probe, harness>>

-----------------------------------------------------------------------------
(* Bounds of the model.                                                    *)

MaxG == 6          \* uniform grids np.linspace(0, 1, G) for G in 2..MaxG
GridDen == 4       \* non-uniform grids: subsets of {0/GridDen .. GridDen/GridDen}
NoiseDen == 4      \* probed beliefs and noise parameters k/NoiseDen
MaxUpdates == 2    \* Bayesian updates applied in a row to one prior

-----------------------------------------------------------------------------
(* Exact rational arithmetic standing for the float arithmetic of numpy.   *)

Abs(x) == IF x < 0 THEN -x ELSE x

\* The arithmetic is written as functions so that their arguments are
\* evaluated before the body is.
GCD[a \in Nat, b \in Nat] == IF b = 0 THEN a ELSE GCD[b, a % b]

\* n/d in lowest terms with a positive denominator (d # 0)
Rat[n \in Int, d \in Int] ==
    LET s == IF d < 0 THEN -1 ELSE 1
        g == GCD[Abs(n), Abs(d)]
    IN  <<(s * n) \div g, (s * d) \div g>>

Pairs == Int \X Int

FromInt(n) == <<n, 1>>
RAdd[x \in Pairs, y \in Pairs] == Rat[x[1] * y[2] + y[1] * x[2], x[2] * y[2]]
RSub[x \in Pairs, y \in Pairs] == Rat[x[1] * y[2] - y[1] * x[2], x[2] * y[2]]
RMul[x \in Pairs, y \in Pairs] == Rat[x[1] * y[1], x[2] * y[2]]
RLess[x \in Pairs, y \in Pairs] == x[1] * y[2] < y[1] * x[2]
RLeq[x \in Pairs, y \in Pairs] == x[1] * y[2] <= y[1] * x[2]
RAbs[x \in Pairs] == <<Abs(x[1]), x[2]>>

\* numpy division: x/0 is inf, -inf or nan (denominator 0 marks a non-finite value)
NaN == <<0, 0>>
IsFinite(x) == x[2] # 0
RDiv[x \in Pairs, y \in Pairs] ==
    IF y[1] = 0
    THEN <<(IF x[1] > 0 THEN 1 ELSE IF x[1] < 0 THEN -1 ELSE 0), 0>>
    ELSE Rat[x[1] * y[2], x[2] * y[1]]

Zero == FromInt(0)
One == FromInt(1)
Half == Rat[1, 2]

\* 0-based access to a sequence, as the Python code indexes its arrays
At(arr, i) == arr[i + 1]

-----------------------------------------------------------------------------
(* Observation model and Bayesian update.                                  *)

DefaultNoise == Rat[15, 100]

prob_TL(belief, noise_prob_L, noise_prob_R) ==
    RAdd[RMul[RSub[One, noise_prob_L], RSub[One, belief]],
         RMul[noise_prob_R, belief]]

\* a prob_TR that uses the left noise parameter for both hidden states
prob_TR_left_noise(belief, noise_prob_L, noise_prob_R) ==
    RAdd[RMul[noise_prob_L, RSub[One, belief]],
         RMul[RSub[One, noise_prob_L], belief]]

prob_TR(belief, noise_prob_L, noise_prob_R) ==
    RAdd[RMul[noise_prob_L, RSub[One, belief]],
         RMul[RSub[One, noise_prob_R], belief]]

\* an update that returns the posterior of the other hidden state
bayes_update_TL_other_state(belief, noise_prob_L, noise_prob_R) ==
    RDiv[RMul[RSub[One, noise_prob_L], RSub[One, belief]],
         prob_TL(belief, noise_prob_L, noise_prob_R)]

\* a bayes_update_TL that weighs the prior by the likelihood of the other signal
bayes_update_TL_other_signal(belief, noise_prob_L, noise_prob_R) ==
    RDiv[RMul[RSub[One, noise_prob_R], belief],
         prob_TL(belief, noise_prob_L, noise_prob_R)]

bayes_update_TL(belief, noise_prob_L, noise_prob_R) ==
    RDiv[RMul[noise_prob_R, belief],
         prob_TL(belief, noise_prob_L, noise_prob_R)]

\* a bayes_update_TR whose numerator lacks the prior belief
bayes_update_TR_prior_dropped(belief, noise_prob_L, noise_prob_R) ==
    RDiv[RSub[One, noise_prob_R],
         prob_TR(belief, noise_prob_L, noise_prob_R)]

\* a bayes_update_TR that computes the heard-left posterior once more
bayes_update_TR_heard_left(belief, noise_prob_L, noise_prob_R) ==
    RDiv[RMul[noise_prob_R, belief],
         prob_TL(belief, noise_prob_L, noise_prob_R)]

bayes_update_TR(belief, noise_prob_L, noise_prob_R) ==
    RDiv[RMul[RSub[One, noise_prob_R], belief],
         prob_TR(belief, noise_prob_L, noise_prob_R)]

-----------------------------------------------------------------------------
(* nearest_idx: midpoints of consecutive grid values, then np.searchsorted *)
(* (side='left': binary search for the first midpoint that is >= v).       *)

\* the lower neighbours grid[:-1] taken for the midpoints
mid_points_lower(grid) ==
    [i \in 1..(IF Len(grid) = 0 THEN 0 ELSE Len(grid) - 1) |-> grid[i]]

\* the upper neighbours grid[1:] taken for the midpoints
mid_points_upper(grid) ==
    [i \in 1..(IF Len(grid) = 0 THEN 0 ELSE Len(grid) - 1) |-> grid[i + 1]]

mid_points(grid) ==
    [i \in 1..(IF Len(grid) = 0 THEN 0 ELSE Len(grid) - 1) |->
        RMul[RAdd[grid[i], grid[i + 1]], Half]]

RECURSIVE BinSearchLeft(_, _, _, _)
BinSearchLeft(arr, v, lo, hi) ==
    IF lo >= hi THEN lo
    ELSE LET mid == (lo + hi) \div 2
         IN  IF RLess[At(arr, mid), v]
             THEN BinSearchLeft(arr, v, mid + 1, hi)
             ELSE BinSearchLeft(arr, v, lo, mid)

\* side='right': binary search for the first element that is > v
RECURSIVE BinSearchRight(_, _, _, _)
BinSearchRight(arr, v, lo, hi) ==
    IF lo >= hi THEN lo
    ELSE LET mid == (lo + hi) \div 2
         IN  IF RLeq[At(arr, mid), v]
             THEN BinSearchRight(arr, v, mid + 1, hi)
             ELSE BinSearchRight(arr, v, lo, mid)

searchsorted_right(arr, v) == BinSearchRight(arr, v, 0, Len(arr))

searchsorted(arr, v) == BinSearchLeft(arr, v, 0, Len(arr))

\* a nearest_idx that counts the grid points from 1
nearest_idx_one_based(grid, v) == searchsorted(mid_points(grid), v) + 1

nearest_idx(grid, v) == searchsorted(mid_points(grid), v)


-----------------------------------------------------------------------------
(* numpy / scipy array operations used by tiger_mdp.                       *)

\* np.linspace(0, 1, n)
linspace01(n) == [k \in 1..n |-> IF n = 1 THEN Zero ELSE Rat[k - 1, n - 1]]

\* an arange that ignores the step
arange_unit_step(start, stop, step) ==
    [k \in 1..(IF stop > start THEN stop - start ELSE 0) |-> start + (k - 1)]

\* np.arange(start, stop, step), step > 0
arange(start, stop, step) ==
    [k \in 1..(IF stop > start THEN (stop - start + step - 1) \div step ELSE 0) |->
        start + (k - 1) * step]

\* np.tile taken for np.repeat
repeat_tiled(arr, n) == [k \in 1..(Len(arr) * n) |-> arr[((k - 1) % Len(arr)) + 1]]

\* np.repeat(arr, n): each element n times in a row
repeat(arr, n) == [k \in 1..(Len(arr) * n) |-> arr[((k - 1) \div n) + 1]]

\* np.tile(arr, reps): the whole array reps times
tile(arr, reps) == [k \in 1..(Len(arr) * reps) |-> arr[((k - 1) % Len(arr)) + 1]]

\* np.empty: the contents are whatever the allocator left; these markers are
\* values that no write of tiger_mdp produces
UninitData == <<0, -1>>
UninitIdx == -1
empty(n, marker) == [k \in 1..n |-> marker]

\* buf[lo:hi] = vals (0-based half-open slice, vals of length hi - lo)
SetSlice(buf, lo, hi, vals) ==
    [k \in 1..Len(buf) |-> IF lo <= k - 1 /\ k - 1 < hi THEN vals[k - lo] ELSE buf[k]]

\* a broadcast that stops one slot short of hi
FillSlice_short(buf, lo, hi, x) ==
    [k \in 1..Len(buf) |-> IF lo <= k - 1 /\ k - 1 < hi - 1 THEN x ELSE buf[k]]

\* buf[lo:hi] = scalar (broadcast)
FillSlice(buf, lo, hi, x) ==
    [k \in 1..Len(buf) |-> IF lo <= k - 1 /\ k - 1 < hi THEN x ELSE buf[k]]

\* an argmin that reports the 1-based position
argmin_one_based(arr) ==
    CHOOSE i \in 1..Len(arr) :
       \A j \in 1..Len(arr) :
          IF j < i THEN RLess[arr[i], arr[j]] ELSE RLeq[arr[i], arr[j]]

\* arr.argmin(): 0-based index of the first minimum
argmin(arr) ==
    (CHOOSE i \in 1..Len(arr) :
        \A j \in 1..Len(arr) :
           IF j < i THEN RLess[arr[i], arr[j]] ELSE RLeq[arr[i], arr[j]]) - 1

\* a column-major (Fortran-order) flattening
reshape_column_major(R2d, ncols, len) ==
    [k \in 1..len |-> R2d[((k - 1) % (len \div ncols)) + 1]
                         [((k - 1) \div (len \div ncols)) + 1]]

\* R.shape = (L,): row-major flattening of the (grid_size, num_actions) array
reshape(R2d, ncols, len) ==
    [k \in 1..len |-> R2d[((k - 1) \div ncols) + 1][((k - 1) % ncols) + 1]]

-----------------------------------------------------------------------------
(* sparse.coo_matrix((data, (row, col))) and Q.sum_duplicates().           *)

coo_matrix(data, row, col) == [data |-> data, row |-> row, col |-> col]

\* np.lexsort((row, col)): positions ordered by col, then row, stable;
\* position i comes at or before position j
KeyLeq(row, col, i, j) ==
    \/ col[i] < col[j]
    \/ col[i] = col[j] /\ row[i] < row[j]
    \/ col[i] = col[j] /\ row[i] = row[j] /\ i <= j

lexsort(row, col) ==
    [k \in 1..Len(row) |->
        CHOOSE i \in 1..Len(row) :
           Cardinality({j \in 1..Len(row) : KeyLeq(row, col, j, i)}) = k]

\* np.nonzero(mask): the positions where mask is true, ascending
nonzero(mask) ==
    LET T == {k \in 1..Len(mask) : mask[k]}
    IN  [m \in 1..Cardinality(T) |->
            CHOOSE k \in T : Cardinality({j \in T : j <= k}) = m]

\* data[lo] + ... + data[hi], added up by halves
RECURSIVE SumRange(_, _, _)
SumRange(data, lo, hi) ==
    IF lo > hi THEN Zero
    ELSE IF lo = hi THEN data[lo]
    ELSE LET mid == (lo + hi) \div 2
         IN  RAdd[SumRange(data, lo, mid), SumRange(data, mid + 1, hi)]

\* a merge that keeps the first value of each run instead of adding the run up
reduceat_first(data, inds) == [m \in 1..Len(inds) |-> data[inds[m]]]

\* np.add.reduceat(data, inds): sums of the runs that start at inds
reduceat(data, inds) ==
    [m \in 1..Len(inds) |->
        SumRange(data, inds[m],
                 IF m < Len(inds) THEN inds[m + 1] - 1 ELSE Len(data))]

\* a merge step that leaves the triplets as they were written
sum_duplicates_skipped(Q) == Q

sum_duplicates(Q) ==
    IF Len(Q.data) = 0 THEN Q
    ELSE LET order == lexsort(Q.row, Q.col)
             row == [k \in 1..Len(order) |-> Q.row[order[k]]]
             col == [k \in 1..Len(order) |-> Q.col[order[k]]]
             data == [k \in 1..Len(order) |-> Q.data[order[k]]]
             unique_mask == [k \in 1..Len(order) |->
                                \/ k = 1
                                \/ row[k] # row[k - 1]
                                \/ col[k] # col[k - 1]]
             unique_inds == nonzero(unique_mask)
         IN  [data |-> reduceat(data, unique_inds),
              row |-> [m \in 1..Len(unique_inds) |-> row[unique_inds[m]]],
              col |-> [m \in 1..Len(unique_inds) |-> col[unique_inds[m]]]]

-----------------------------------------------------------------------------
(* tiger_mdp(belief_grid, beta).                                           *)

num_actions == 3
reward == 10
penalty == -100
cost == -1

\* the reward array with the OpenL and OpenR columns exchanged
RewardArray_doors_exchanged(grid) ==
    [g \in 1..Len(grid) |->
        << FromInt(cost),
           RAdd[RMul[FromInt(reward), RSub[One, grid[g]]],
                RMul[FromInt(penalty), grid[g]]],
           RAdd[RMul[FromInt(penalty), RSub[One, grid[g]]],
                RMul[FromInt(reward), grid[g]]] >>]

\* the reward array with the OpenL formula written into the OpenR column too
RewardArray_same_door(grid) ==
    [g \in 1..Len(grid) |->
        << FromInt(cost),
           RAdd[RMul[FromInt(penalty), RSub[One, grid[g]]],
                RMul[FromInt(reward), grid[g]]],
           RAdd[RMul[FromInt(penalty), RSub[One, grid[g]]],
                RMul[FromInt(reward), grid[g]]] >>]

\* the (grid_size, num_actions) reward array before flattening
RewardArray(grid) ==
    [g \in 1..Len(grid) |->
        << FromInt(cost),
           RAdd[RMul[FromInt(penalty), RSub[One, grid[g]]],
                RMul[FromInt(reward), grid[g]]],
           RAdd[RMul[FromInt(reward), RSub[One, grid[g]]],
                RMul[FromInt(penalty), grid[g]]] >>]

\* R[:, 0] = ..., R[:, 1] = ..., R[:, 2] = ...: the columns of vals written
\* over those of the allocated array R0
SetColumns(R0, vals) ==
    [g \in 1..Len(R0) |->
        [a \in 1..Len(R0[g]) |-> IF a <= Len(vals[g]) THEN vals[g][a] ELSE R0[g][a]]]

\* tiger_mdp on np.empty arrays whose initial contents are junk.data (the
\* float arrays R and data) and junk.idx (the int arrays row and col).
\* The row a of the triplet buffers is written at slots [(a+1)*G, (a+2)*G)
\* for the open actions, [0, G) and [G, 2G) for the two Listen signals
tiger_mdp_alloc(grid, beta, junk) ==
    LET grid_size == Len(grid)
        L == grid_size * num_actions
        s_indices == repeat(arange(0, grid_size, 1), num_actions)
        a_indices == tile(arange(0, num_actions, 1), grid_size)
        R0 == empty(grid_size, empty(num_actions, junk.data))
        R == reshape(SetColumns(R0, RewardArray(grid)), num_actions, L)
        n == grid_size * (num_actions + 1)
        data0 == empty(n, junk.data)
        row0 == empty(n, junk.idx)
        col0 == empty(n, junk.idx)
        \* listen, observe TL
        data1 == SetSlice(data0, 0, grid_size,
                     [g \in 1..grid_size |->
                         prob_TL(grid[g], DefaultNoise, DefaultNoise)])
        row1 == SetSlice(row0, 0, grid_size, arange(0, L, num_actions))
        col1 == SetSlice(col0, 0, grid_size,
                     [g \in 1..grid_size |->
                         nearest_idx(grid,
                             bayes_update_TL(grid[g], DefaultNoise, DefaultNoise))])
        \* listen, observe TR
        data2 == SetSlice(data1, grid_size, 2 * grid_size,
                     [g \in 1..grid_size |->
                         prob_TR(grid[g], DefaultNoise, DefaultNoise)])
        row2 == SetSlice(row1, grid_size, 2 * grid_size, arange(0, L, num_actions))
        col2 == SetSlice(col1, grid_size, 2 * grid_size,
                     [g \in 1..grid_size |->
                         nearest_idx(grid,
                             bayes_update_TR(grid[g], DefaultNoise, DefaultNoise))])
        \* open left / open right: reset to the belief nearest 1/2
        prob_half_idx ==
            argmin([g \in 1..grid_size |-> RAbs[RSub[grid[g], Half]]])
        data3 == FillSlice(data2, 2 * grid_size, 3 * grid_size, One)
        row3 == SetSlice(row2, 2 * grid_size, 3 * grid_size, arange(1, L, num_actions))
        col3 == FillSlice(col2, 2 * grid_size, 3 * grid_size, prob_half_idx)
        data4 == FillSlice(data3, 3 * grid_size, 4 * grid_size, One)
        row4 == SetSlice(row3, 3 * grid_size, 4 * grid_size, arange(2, L, num_actions))
        col4 == FillSlice(col3, 3 * grid_size, 4 * grid_size, prob_half_idx)
    IN  [R |-> R,
         data |-> data4, row |-> row4, col |-> col4,
         Q |-> sum_duplicates(coo_matrix(data4, row4, col4)),
         beta |-> beta,
         s_indices |-> s_indices,
         a_indices |-> a_indices,
         prob_half_idx |-> prob_half_idx]

\* element g (0-based) of the vectorised assignments of tiger_mdp: the four
\* triplets of grid index g as a function from buffer slot (1-based) to
\* <<data, row, col>>
index_triplets(grid, g) ==
    LET grid_size == Len(grid)
        b == At(grid, g)
        prob_half_idx ==
            argmin([i \in 1..grid_size |-> RAbs[RSub[grid[i], Half]]])
    IN  (g + 1 :>
            <<prob_TL(b, DefaultNoise, DefaultNoise),
              num_actions * g + 0,
              nearest_idx(grid, bayes_update_TL(b, DefaultNoise, DefaultNoise))>>)
        @@ (grid_size + g + 1 :>
            <<prob_TR(b, DefaultNoise, DefaultNoise),
              num_actions * g + 0,
              nearest_idx(grid, bayes_update_TR(b, DefaultNoise, DefaultNoise))>>)
        @@ (2 * grid_size + g + 1 :> <<One, num_actions * g + 1, prob_half_idx>>)
        @@ (3 * grid_size + g + 1 :> <<One, num_actions * g + 2, prob_half_idx>>)

\* the call with the allocated arrays holding the markers
tiger_mdp(grid, beta) ==
    tiger_mdp_alloc(grid, beta, [data |-> UninitData, idx |-> UninitIdx])

\* a slicing that takes a*grid_size:(a+1)*grid_size for the open actions too
block_slice_action_offset(grid_size, k) ==
    IF k <= 2
    THEN <<(k - 1) * grid_size, k * grid_size>>
    ELSE <<(k - 2) * grid_size, (k - 1) * grid_size>>

\* the half-open slice of the triplet buffers that the k-th group of
\* assignments of tiger_mdp fills: a*grid_size:(a+1)*grid_size and
\* (a+1)*grid_size:(a+2)*grid_size with a = 0 for the two Listen signals
\* (k = 1, 2), (a+1)*grid_size:(a+2)*grid_size with a = 1, 2 in the loop
\* over the open actions (k = 3, 4)
block_slice(grid_size, k) ==
    IF k = 1 THEN <<0 * grid_size, (0 + 1) * grid_size>>
    ELSE IF k = 2 THEN <<(0 + 1) * grid_size, (0 + 2) * grid_size>>
    ELSE <<((k - 2) + 1) * grid_size, ((k - 2) + 2) * grid_size>>

\* the values that the k-th group assigns to its slices of data, row and
\* col, a scalar on the right-hand side broadcast over the slice
block_values(grid, k) ==
    LET grid_size == Len(grid)
        L == grid_size * num_actions
    IN  IF k = 1
        THEN [data |-> [g \in 1..grid_size |->
                           prob_TL(grid[g], DefaultNoise, DefaultNoise)],
              row |-> arange(0, L, num_actions),
              col |-> [g \in 1..grid_size |->
                          nearest_idx(grid,
                              bayes_update_TL(grid[g], DefaultNoise, DefaultNoise))]]
        ELSE IF k = 2
        THEN [data |-> [g \in 1..grid_size |->
                           prob_TR(grid[g], DefaultNoise, DefaultNoise)],
              row |-> arange(0, L, num_actions),
              col |-> [g \in 1..grid_size |->
                          nearest_idx(grid,
                              bayes_update_TR(grid[g], DefaultNoise, DefaultNoise))]]
        ELSE [data |-> [g \in 1..grid_size |-> One],
              row |-> arange(k - 2, L, num_actions),
              col |-> [g \in 1..grid_size |->
                          argmin([i \in 1..grid_size |-> RAbs[RSub[grid[i], Half]]])]]

-----------------------------------------------------------------------------
(* Inputs.                                                                 *)

\* the elements of a set of integers in increasing order
SortedSeq(S) ==
    [k \in 1..Cardinality(S) |->
        CHOOSE x \in S : Cardinality({y \in S : y <= x}) = k]

\* np.linspace(0, 1, G), the grid of the notebook, for small G
UniformGrids == {linspace01(G) : G \in 2..MaxG}

\* strictly increasing grids in [0,1] that need not be evenly spaced
NonUniformGrids ==
    {[k \in 1..Cardinality(S) |-> Rat[SortedSeq(S)[k], GridDen]] :
        S \in {T \in SUBSET (0..GridDen) : Cardinality(T) >= 2}}

Grids == UniformGrids \cup NonUniformGrids

Betas == {Rat[95, 100], Rat[1, 2]}

\* discount factors a caller may write, inside and outside (0,1)
AnyBetas == Betas \cup {Rat[-1, 2], Zero, One, Rat[3, 2]}

\* values handed to nearest_idx: the grid points, the midpoints and other
\* averages of two grid points, points a quarter of the way between
\* neighbours, and points outside the grid on both sides
ProbeValues(grid) ==
    {RMul[RAdd[grid[i], grid[j]], Half] : i, j \in 1..Len(grid)}
    \cup {RMul[RAdd[RMul[FromInt(3), grid[i]], grid[i + 1]], Rat[1, 4]] :
            i \in 1..(Len(grid) - 1)}
    \cup {RSub[grid[1], One], RSub[grid[1], Rat[1, 7]],
          RAdd[grid[Len(grid)], Rat[1, 7]], RAdd[grid[Len(grid)], One]}

UnitValues == {Rat[k, NoiseDen] : k \in 0..NoiseDen}

NoMdp == [R |-> <<>>, data |-> <<>>, row |-> <<>>, col |-> <<>>,
          Q |-> coo_matrix(<<>>, <<>>, <<>>), beta |-> Zero,
          s_indices |-> <<>>, a_indices |-> <<>>, prob_half_idx |-> -1]

NoRes == [sigma |-> <<>>, v |-> <<>>]

NoCutoffs == <<-1, -1>>

\* value functions from which the solver's final greedy step is taken
ValueLevels == {-100, 0, 100}
ValueFunctions(n) == [1..n -> {FromInt(x) : x \in ValueLevels}]

\* what the arrays that np.empty returns may hold before they are written
Junk == [data : {UninitData, Zero, One}, idx : {UninitIdx, 0}]

\* noise parameters handed to the observation model and the updates
Noises == UnitValues \cup {DefaultNoise}

NoProbe == [fn |-> "none", v |-> Zero, idx |-> -1,
            b |-> Zero, pL |-> Zero, pR |-> Zero, TL |-> Zero, TR |-> Zero,
            postTL |-> Zero, postTR |-> Zero, n |-> 0, outcome |-> "none",
            grid |-> <<>>, junk |-> [data |-> UninitData, idx |-> UninitIdx],
            ret |-> NoMdp, written |-> {}]

-----------------------------------------------------------------------------
(* compare_performance: three representations of one random MDP, solved    *)
(* by each method, compared and then timed.                                *)

labels == <<"n x m x n", "n*m x n (dense)", "n*m x n (sparse)">>
flags == <<<<FALSE, FALSE>>, <<FALSE, TRUE>>, <<TRUE, TRUE>>>>  \* (sparse, sa_pair)
max_iter == 1000
k_mpi == 20

\* the calls of compare_performance in the notebook (first and last), and
\* one that leaves random_state at its default
CompareArgs ==
    {[num_states |-> 100, num_actions |-> 20, beta |-> Rat[95, 100], k |-> 3,
      suppress_vi |-> FALSE, random_state |-> 1234],
     [num_states |-> 1000, num_actions |-> 200, beta |-> Rat[95, 100], k |-> 1,
      suppress_vi |-> TRUE, random_state |-> 1234],
     [num_states |-> 100, num_actions |-> 20, beta |-> Rat[95, 100], k |-> 3,
      suppress_vi |-> FALSE, random_state |-> 0]}

\* random_discrete_dp(...): the descriptor is known by the arguments it was
\* generated from; max_iter is <<>> until the harness sets it
random_discrete_dp(num_states, num_acts, beta, k, sparse, sa_pair, random_state) ==
    [num_states |-> num_states, num_actions |-> num_acts, beta |-> beta,
     k |-> k, sparse |-> sparse, sa_pair |-> sa_pair,
     random_state |-> random_state, max_iter |-> <<>>]

\* a method list that keeps value iteration whatever suppress_vi says
select_methods_all(suppress_vi) == <<"vi", "pi", "mpi">>

select_methods(suppress_vi) ==
    IF suppress_vi THEN <<"pi", "mpi">> ELSE <<"vi", "pi", "mpi">>

\* what one call of ddp.solve may return: the solver is outside the
\* notebook, so the policy and the iteration count are any of these
SolverOutcomes ==
    {[sigma |-> <<0, 0>>, num_iter |-> 1],
     [sigma |-> <<0, 0>>, num_iter |-> 2],
     [sigma |-> <<0, 1>>, num_iter |-> 1]}

NoHarness == [pc |-> "idle", args |-> <<>>, ddps |-> <<>>, methods |-> <<>>,
              solves |-> <<>>, out |-> <<>>, timed |-> <<>>]

\* results[label][method] for the label and method at the given positions
Result(h, i, m) == h.solves[(i - 1) * Len(h.methods) + m].res

\* the position of 'pi' in the method list
PiPos(h) == CHOOSE m \in 1..Len(h.methods) : h.methods[m] = "pi"

\* the lines compare_performance prints between the two '=====' lines
Report(h) ==
    [pi_agree |-> \A i \in {1, 2} :
                     Result(h, i, PiPos(h)).sigma = Result(h, 3, PiPos(h)).sigma,
     correct |-> [m \in {x \in 1..Len(h.methods) : h.methods[x] # "pi"} |->
                     [i \in 1..Len(labels) |->
                         Result(h, i, m).sigma = Result(h, i, PiPos(h)).sigma]],
     num_iter |-> [m \in 1..Len(h.methods) |->
                     [i \in 1..Len(labels) |-> Result(h, i, m).num_iter]]]

-----------------------------------------------------------------------------
(* The solver's greedy step on a state-action-pair MDP, and the plot cell. *)

\* (Q.dot(v))[i] for the 0-based row i of the merged operator
QDot(Q, v, i) ==
    SumRange([k \in 1..Len(Q.data) |->
                 IF Q.row[k] = i THEN RMul[Q.data[k], At(v, Q.col[k])] ELSE Zero],
             1, Len(Q.data))

\* vals = R + beta * Q.dot(v), one value per state-action pair
ActionValues(m, v) ==
    [k \in 1..Len(m.R) |-> RAdd[m.R[k], RMul[m.beta, QDot(m.Q, v, k - 1)]]]

\* the first maximal pair among the state-action pairs of state s
ArgMaxPair(m, vals, s) ==
    CHOOSE k \in 1..Len(vals) :
       /\ m.s_indices[k] = s
       /\ \A j \in 1..Len(vals) :
            m.s_indices[j] = s =>
               IF j < k THEN RLess[vals[j], vals[k]] ELSE RLeq[vals[j], vals[k]]

compute_greedy(m, v) ==
    LET vals == ActionValues(m, v)
    IN  [g \in 1..Len(v) |-> m.a_indices[ArgMaxPair(m, vals, g - 1)]]

\* np.where(sigma == a)[0]: the 0-based positions holding action a
where(sigma, a) == {g \in 0..(Len(sigma) - 1) : At(sigma, g) = a}

SetMin(S) == CHOOSE x \in S : \A y \in S : x <= y
SetMax(S) == CHOOSE x \in S : \A y \in S : y <= x

-----------------------------------------------------------------------------
(* float64 arithmetic. A finite double is kept by its magnitude, the set   *)
(* of the exponents of the one bits of its binary expansion (0.75 is       *)
(* {-1, -2}), at most MantissaBits wide; every operation rounds the exact  *)
(* result to nearest, ties to even, as IEEE 754 arithmetic does. The       *)
(* operations are functions so that their arguments are evaluated once.    *)

MantissaBits == 53

Bits == SUBSET Int

\* the double of a whole number 0 <= n < 2^31
float64(n) == {k \in 0..30 : (n \div (2^k)) % 2 = 1}

\* 1/2 evaluates to the double 0.5 (true division)
Half64 == {-1}

BLess[x \in Bits, y \in Bits] ==
    x # y /\ SetMax((x \ y) \cup (y \ x)) \in y

\* x * 2^j
BShift[x \in Bits, j \in Int] == {k + j : k \in x}

\* the exact sum: bit k of the result is the exclusive or of the two bits
\* and the carry into k, which comes from the nearest lower position where
\* both bits are set if at least one bit is set at every position between
BAdd[x \in Bits, y \in Bits] ==
    IF x = {} THEN y
    ELSE IF y = {} THEN x
    ELSE LET lo == SetMin(x \cup y)
             hi == SetMax(x \cup y)
             carry(k) ==
                \E j \in lo..(k - 1) :
                   /\ j \in x /\ j \in y
                   /\ \A m \in (j + 1)..(k - 1) : m \in x \/ m \in y
         IN  {k \in lo..(hi + 1) : ((k \in x) # (k \in y)) # carry(k)}

\* the exact difference x - y for y <= x, with the borrow into k in place
\* of the carry
BSub[x \in Bits, y \in Bits] ==
    IF y = {} THEN x
    ELSE LET lo == SetMin(x \cup y)
             hi == SetMax(x \cup y)
             borrow(k) ==
                \E j \in lo..(k - 1) :
                   /\ j \notin x /\ j \in y
                   /\ \A m \in (j + 1)..(k - 1) : ~(m \in x /\ m \notin y)
         IN  {k \in lo..hi : ((k \in x) # (k \in y)) # borrow(k)}

\* the exact product, the shifted copies of y added up
BMul[x \in Bits, y \in Bits] ==
    IF x = {} THEN {}
    ELSE BAdd[BShift[y, SetMax(x)], BMul[x \ {SetMax(x)}, y]]

\* round to nearest, ties to even: x is the exact result cut off below some
\* position, sticky tells whether anything non-zero was cut off
round64[x \in Bits, sticky \in BOOLEAN] ==
    IF x = {} THEN {}
    ELSE LET ulp == SetMax(x) - (MantissaBits - 1)
             keep == {k \in x : k >= ulp}
             up == /\ (ulp - 1) \in x
                   /\ \/ sticky
                      \/ \E k \in x : k < ulp - 1
                      \/ ulp \in x
         IN  IF up THEN BAdd[keep, {ulp}] ELSE keep

add64(x, y) == round64[BAdd[x, y], FALSE]

mul64(x, y) == round64[BMul[x, y], FALSE]

\* |x - y|: np.abs of the difference of two non-negative doubles
abs_sub64(x, y) == round64[IF BLess[x, y] THEN BSub[y, x] ELSE BSub[x, y], FALSE]

\* 2^e mod d for 0 <= e < 120 and 1 <= d < 2^15, from 2^30 mod d and the
\* remaining power of two, so that no product leaves the 32-bit integers
PowMod[e \in Nat, d \in Nat] ==
    LET p == (2^30) % d
        r == (2^(e % 30)) % d
    IN  IF e < 30 THEN r
        ELSE IF e < 60 THEN (p * r) % d
        ELSE IF e < 90 THEN (((p * p) % d) * r) % d
        ELSE (((((p * p) % d) * p) % d) * r) % d

\* x / d for a divisor d that is a whole number 1 <= d < 2^15, by long
\* division: the remainder left above position k is the part of x at and
\* above k, as a multiple of 2^k, modulo d; the quotient has a one bit at k
\* when twice the remainder above k+1 plus the bit of x at k reaches d
div64[x \in Bits, d \in Nat] ==
    IF x = {} THEN {}
    ELSE LET hi == SetMax(x)
             rem(k) ==
                Cardinality({<<j, t>> \in {j \in x : j >= k} \X (1..d) :
                                t <= PowMod[j - k, d]}) % d
             qbit(k) == 2 * rem(k + 1) + (IF k \in x THEN 1 ELSE 0) >= d
             top == SetMax({k \in (hi - 16)..hi : qbit(k)})
             q == {k \in (top - MantissaBits)..top : qbit(k)}
         IN  round64[q, rem(top - MantissaBits) # 0
                        \/ \E j \in x : j < top - MantissaBits]

\* np.linspace(0, 1, num) in float64: step = 1.0 / (num - 1), the values
\* arange(num) * step + 0.0, and the last one set to the stop value 1.0
linspace64(num) ==
    [k \in 1..num |->
        IF k = 1 THEN {}
        ELSE IF k = num THEN float64(1)
        ELSE add64(mul64(float64(k - 1), div64[float64(1), num - 1]), {})]

\* (grid[:-1] + grid[1:]) / 2 in float64; halving is exact
mid_points64(grid) ==
    [i \in 1..(IF Len(grid) = 0 THEN 0 ELSE Len(grid) - 1) |->
        BShift[add64(grid[i], grid[i + 1]), -1]]

RECURSIVE BinSearchLeft64(_, _, _, _)
BinSearchLeft64(arr, v, lo, hi) ==
    IF lo >= hi THEN lo
    ELSE LET mid == (lo + hi) \div 2
         IN  IF BLess[At(arr, mid), v]
             THEN BinSearchLeft64(arr, v, mid + 1, hi)
             ELSE BinSearchLeft64(arr, v, lo, mid)

searchsorted64(arr, v) == BinSearchLeft64(arr, v, 0, Len(arr))

nearest_idx64(grid, v) == searchsorted64(mid_points64(grid), v)

\* an argmin that reports the last of several equal minima
argmin64_last(arr) ==
    (CHOOSE i \in 1..Len(arr) :
        \A j \in 1..Len(arr) :
           IF j > i THEN BLess[arr[i], arr[j]] ELSE ~BLess[arr[j], arr[i]]) - 1

\* arr.argmin() on doubles: 0-based index of the first minimum
argmin64(arr) ==
    (CHOOSE i \in 1..Len(arr) :
        \A j \in 1..Len(arr) :
           IF j < i THEN BLess[arr[i], arr[j]] ELSE ~BLess[arr[j], arr[i]]) - 1

\* prob_half_idx = np.abs(belief_grid-1/2).argmin() in float64
prob_half_idx64(grid) ==
    argmin64([g \in 1..Len(grid) |-> abs_sub64(grid[g], Half64)])

\* the doubles k/d handed to nearest_idx: the beliefs that uniform grids of
\* up to MaxG + 1 points aim at
Values64 == {div64[float64(k), d] : <<k, d>> \in {kd \in (0..MaxG) \X (1..MaxG) : kd[1] <= kd[2]}}

-----------------------------------------------------------------------------
(* The state machine.                                                      *)

Init ==
    /\ belief_grid \in Grids
    /\ pc = "grid"
    /\ mdp = NoMdp
    /\ res = NoRes
    /\ cutoffs = NoCutoffs
    /\ probe = NoProbe
    /\ harness = NoHarness

\* mdp = tiger_mdp(belief_grid, beta=...)
TigerMdp ==
    /\ pc = "grid"
    /\ \E beta \in Betas : mdp' = tiger_mdp(belief_grid, beta)
    /\ pc' = "built"
    /\ UNCHANGED <<harness, belief_grid, res, cutoffs, probe>>

\* belief_grid = np.linspace(0, 1, grid_size) for any grid_size >= 0
Linspace ==
    /\ pc = "start"
    /\ \E grid_size \in 0..MaxG : belief_grid' = linspace01(grid_size)
    /\ pc' = "grid"
    /\ UNCHANGED <<harness, mdp, res, cutoffs, probe>>

\* mdp = tiger_mdp(belief_grid, beta) for any grid and any discount factor.
\* On an empty grid the argmin of line 155 raises ValueError (argmin of an
\* empty sequence); otherwise R, Q, beta and the index vectors are handed to
\* DiscreteDP unchecked, and only the solver's constructor may still reject
\* a discount factor outside (0,1).
TigerMdpAny ==
    /\ pc = "grid"
    /\ \E beta \in AnyBetas :
          IF Len(belief_grid) = 0
          THEN /\ mdp' = mdp
               /\ pc' = "ValueError"
          ELSE /\ mdp' = tiger_mdp(belief_grid, beta)
               /\ pc' \in IF RLess[Zero, beta] /\ RLess[beta, One]
                          THEN {"built"}
                          ELSE {"built", "solver_error"}
    /\ UNCHANGED <<harness, belief_grid, res, cutoffs, probe>>

\* a direct call nearest_idx(belief_grid, v)
CallNearestIdx ==
    /\ \E v \in ProbeValues(belief_grid) :
          probe' = [NoProbe EXCEPT !.fn = "nearest_idx", !.outcome = "returned",
                                   !.v = v,
                                   !.idx = nearest_idx(belief_grid, v)]
    /\ UNCHANGED <<harness, belief_grid, pc, mdp, res, cutoffs>>

\* a direct call nearest_idx(belief_grid, v) on any constructed grid, with
\* v a belief in [0,1]
CallNearestIdxAny ==
    /\ pc = "grid"
    /\ \E v \in UnitValues :
          probe' = [NoProbe EXCEPT !.fn = "nearest_idx", !.outcome = "returned",
                                   !.v = v, !.grid = belief_grid,
                                   !.idx = nearest_idx(belief_grid, v)]
    /\ UNCHANGED <<harness, belief_grid, pc, mdp, res, cutoffs>>

\* a direct call prob_TL(b, pL, pR), prob_TR(b, pL, pR)
CallProb ==
    /\ \E b \in UnitValues, pL \in UnitValues, pR \in UnitValues :
          probe' = [NoProbe EXCEPT !.fn = "prob", !.outcome = "returned",
                                   !.b = b, !.pL = pL, !.pR = pR,
                                   !.TL = prob_TL(b, pL, pR),
                                   !.TR = prob_TR(b, pL, pR)]
    /\ UNCHANGED <<harness, belief_grid, pc, mdp, res, cutoffs>>

\* tiger_mdp(belief_grid, beta) called once more with the arguments of the
\* first call; np.empty hands out arrays with other contents this time
TigerMdpAgain ==
    /\ pc = "built"
    /\ probe.fn # "tiger_mdp"
    /\ \E junk \in Junk :
          probe' = [NoProbe EXCEPT !.fn = "tiger_mdp", !.outcome = "returned",
                                   !.grid = belief_grid, !.junk = junk,
                                   !.ret = tiger_mdp_alloc(belief_grid, mdp.beta, junk)]
    /\ UNCHANGED <<harness, belief_grid, pc, mdp, res, cutoffs>>

\* the triplet buffers assembled one grid index at a time: the triplets of
\* an index not yet written are put into buffers that start as np.empty
\* leaves them, the indices taken in any order
AssembleIndex ==
    /\ pc = "built"
    /\ probe.fn \in {"none", "assemble"}
    /\ \E g \in (0..(Len(belief_grid) - 1)) \ probe.written :
       \E t \in {index_triplets(belief_grid, g)} :
       \E old \in {IF probe.fn = "none"
                   THEN [data |-> empty(Len(belief_grid) * (num_actions + 1), UninitData),
                         row |-> empty(Len(belief_grid) * (num_actions + 1), UninitIdx),
                         col |-> empty(Len(belief_grid) * (num_actions + 1), UninitIdx)]
                   ELSE [data |-> probe.ret.data,
                         row |-> probe.ret.row,
                         col |-> probe.ret.col]} :
          probe' =
            [probe EXCEPT
               !.fn = "assemble", !.outcome = "returned",
               !.grid = belief_grid, !.idx = g,
               !.written = @ \cup {g},
               !.ret = [NoMdp EXCEPT
                  !.data = [k \in 1..Len(old.data) |->
                              IF k \in DOMAIN t THEN t[k][1] ELSE old.data[k]],
                  !.row = [k \in 1..Len(old.row) |->
                              IF k \in DOMAIN t THEN t[k][2] ELSE old.row[k]],
                  !.col = [k \in 1..Len(old.col) |->
                              IF k \in DOMAIN t THEN t[k][3] ELSE old.col[k]]]]
    /\ UNCHANGED <<harness, belief_grid, pc, mdp, res, cutoffs>>

\* Q = sparse.coo_matrix(...); Q.sum_duplicates() on the buffers assembled
\* index by index, once every index has been written
MergeAssembled ==
    /\ pc = "built"
    /\ probe.fn = "assemble"
    /\ probe.written = 0..(Len(belief_grid) - 1)
    /\ probe' = [probe EXCEPT
                    !.fn = "assembled",
                    !.ret.Q = sum_duplicates(coo_matrix(probe.ret.data,
                                                        probe.ret.row,
                                                        probe.ret.col))]
    /\ UNCHANGED <<harness, belief_grid, pc, mdp, res, cutoffs>>

\* the calls with the two noise parameters handed to the updates in the
\* wrong order
BayesCall_noises_exchanged(b, pL, pR, n) ==
    [NoProbe EXCEPT !.fn = "bayes", !.outcome = "returned",
                    !.b = b, !.pL = pL, !.pR = pR,
                    !.TL = prob_TL(b, pL, pR),
                    !.TR = prob_TR(b, pL, pR),
                    !.postTL = bayes_update_TL(b, pR, pL),
                    !.postTR = bayes_update_TR(b, pR, pL),
                    !.n = n]

\* the record of the calls prob_TL, prob_TR, bayes_update_TL and
\* bayes_update_TR on the numpy value b with the noise parameters pL, pR,
\* as the n-th update in a row; a zero denominator yields nan or +-inf (with
\* a RuntimeWarning), never an exception: every call returns
BayesCall(b, pL, pR, n) ==
    [NoProbe EXCEPT !.fn = "bayes", !.outcome = "returned",
                    !.b = b, !.pL = pL, !.pR = pR,
                    !.TL = prob_TL(b, pL, pR),
                    !.TR = prob_TR(b, pL, pR),
                    !.postTL = bayes_update_TL(b, pL, pR),
                    !.postTR = bayes_update_TR(b, pL, pR),
                    !.n = n]

\* direct calls of the Bayesian updates: on an element of belief_grid, and
\* then on a finite posterior that a previous call returned
CallBayes ==
    /\ \/ /\ probe.fn = "none"
          /\ \E g \in 1..Len(belief_grid), pL \in Noises, pR \in Noises :
                probe' = BayesCall(belief_grid[g], pL, pR, 1)
       \/ /\ probe.fn = "bayes"
          /\ probe.n < MaxUpdates
          /\ \E post \in {probe.postTL, probe.postTR} :
                /\ IsFinite(post)
                /\ probe' = BayesCall(post, probe.pL, probe.pR, probe.n + 1)
    /\ UNCHANGED <<harness, belief_grid, pc, mdp, res, cutoffs>>

\* res = mdp.solve(method='policy_iteration'): the returned policy is the
\* greedy policy of the value function the iteration ended with
Solve ==
    /\ pc = "built"
    /\ \E v \in ValueFunctions(Len(belief_grid)) :
          res' = [sigma |-> compute_greedy(mdp, v), v |-> v]
    /\ pc' = "solved"
    /\ UNCHANGED <<harness, belief_grid, mdp, cutoffs, probe>>

\* the plot cell: cutoffs = (first index with Open Left, last index with
\* Open Right); indexing an empty np.where result raises IndexError
Plot ==
    /\ pc = "solved"
    /\ IF where(res.sigma, 1) # {} /\ where(res.sigma, 2) # {}
       THEN /\ cutoffs' = <<SetMin(where(res.sigma, 1)), SetMax(where(res.sigma, 2))>>
            /\ pc' = "plotted"
       ELSE /\ cutoffs' = cutoffs
            /\ pc' = "plot_error"
    /\ UNCHANGED <<harness, belief_grid, mdp, res, probe>>

Next == TigerMdp \/ Solve \/ Plot

Spec == Init /\ [][Next]_vars

\* direct calls of nearest_idx on the grid
SpecIdx == Init /\ [][CallNearestIdx]_vars

\* direct calls of the observation model
SpecObs == Init /\ [][CallProb]_vars

\* direct calls of the Bayesian updates
SpecBayes == Init /\ [][CallBayes]_vars

\* compare_performance(...) is called: the three descriptors are generated
\* and the methods are chosen
CompareCall ==
    /\ harness.pc = "idle"
    /\ \E a \in CompareArgs :
          harness' = [NoHarness EXCEPT
                        !.pc = "max_iter",
                        !.args = a,
                        !.ddps = [i \in 1..Len(labels) |->
                                    random_discrete_dp(a.num_states, a.num_actions,
                                                       a.beta, a.k,
                                                       flags[i][1], flags[i][2],
                                                       a.random_state)],
                        !.methods = select_methods(a.suppress_vi)]
    /\ UNCHANGED <<belief_grid, pc, mdp, res, cutoffs, probe>>

\* for ddp in ddps.values(): ddp.max_iter = max_iter, one descriptor per
\* step in the order the dictionary happens to yield them
SetMaxIter ==
    /\ harness.pc = "max_iter"
    /\ \E i \in 1..Len(labels) :
          /\ harness.ddps[i].max_iter = <<>>
          /\ harness' =
                [harness EXCEPT
                   !.ddps[i].max_iter = <<max_iter>>,
                   !.pc = IF \A j \in 1..Len(labels) :
                                j # i => harness.ddps[j].max_iter # <<>>
                          THEN "solve" ELSE "max_iter"]
    /\ UNCHANGED <<belief_grid, pc, mdp, res, cutoffs, probe>>

\* results[label][method] = ddps[label].solve(method=method, k=k_mpi), one
\* call per step, the labels in order and the methods in order within each
SolveNext ==
    /\ harness.pc = "solve"
    /\ LET n == Len(harness.solves) + 1
           M == Len(harness.methods)
           i == ((n - 1) \div M) + 1
           m == ((n - 1) % M) + 1
       IN  \E r \in SolverOutcomes :
              harness' =
                [harness EXCEPT
                   !.solves = Append(@, [label |-> labels[i],
                                         method |-> harness.methods[m],
                                         k |-> k_mpi,
                                         max_iter |-> harness.ddps[i].max_iter,
                                         res |-> r]),
                   !.pc = IF n = Len(labels) * M THEN "report" ELSE "solve"]
    /\ UNCHANGED <<belief_grid, pc, mdp, res, cutoffs, probe>>

\* the comparisons are printed; nothing is asserted
PrintReport ==
    /\ harness.pc = "report"
    /\ harness' = [harness EXCEPT !.out = <<Report(harness)>>, !.pc = "timing"]
    /\ UNCHANGED <<belief_grid, pc, mdp, res, cutoffs, probe>>

\* the speed comparison: for each method in turn, %timeit solves every
\* representation again
Timing ==
    /\ harness.pc = "timing"
    /\ harness' =
          [harness EXCEPT
             !.timed = Append(@, harness.methods[Len(harness.timed) + 1]),
             !.pc = IF Len(harness.timed) + 1 = Len(harness.methods)
                    THEN "done" ELSE "timing"]
    /\ UNCHANGED <<belief_grid, pc, mdp, res, cutoffs, probe>>

NextCompare == CompareCall \/ SetMaxIter \/ SolveNext \/ PrintReport \/ Timing

\* the pipeline on any configuration: before the grid is constructed
InitAny ==
    /\ belief_grid = <<>>
    /\ pc = "start"
    /\ mdp = NoMdp
    /\ res = NoRes
    /\ cutoffs = NoCutoffs
    /\ probe = NoProbe
    /\ harness = NoHarness

NextAny == Linspace \/ TigerMdpAny \/ CallNearestIdxAny

SpecAny == InitAny /\ [][NextAny]_vars

\* tiger_mdp called twice on one grid, after direct calls of nearest_idx
SpecTwice == Init /\ [][TigerMdp \/ TigerMdpAgain \/ CallNearestIdxAny]_vars

\* the vectorised assembly of tiger_mdp, then the same triplets assembled
\* one grid index at a time in any order
SpecRows == Init /\ [][TigerMdp \/ AssembleIndex \/ MergeAssembled]_vars

\* a call of compare_performance
SpecCompare == InitAny /\ [][NextCompare]_vars

\* belief_grid = np.linspace(0, 1, grid_size) with the float64 values that
\* numpy computes
Linspace64 ==
    /\ pc = "start"
    /\ \E grid_size \in 1..MaxG : belief_grid' = linspace64(grid_size)
    /\ pc' = "grid64"
    /\ UNCHANGED <<harness, mdp, res, cutoffs, probe>>

\* the statement prob_half_idx = np.abs(belief_grid-1/2).argmin() of
\* tiger_mdp on the float64 grid; nothing else of tiger_mdp enters it
ProbHalfIdx64 ==
    /\ pc = "grid64"
    /\ mdp' = [NoMdp EXCEPT !.prob_half_idx = prob_half_idx64(belief_grid)]
    /\ pc' = "half64"
    /\ UNCHANGED <<harness, belief_grid, res, cutoffs, probe>>

\* a direct call nearest_idx(belief_grid, v) on the float64 grid
CallNearestIdx64 ==
    /\ pc \in {"grid64", "half64"}
    /\ \E v \in Values64 :
          probe' = [NoProbe EXCEPT !.fn = "nearest_idx", !.outcome = "returned",
                                   !.v = v, !.grid = belief_grid,
                                   !.idx = nearest_idx64(belief_grid, v)]
    /\ UNCHANGED <<harness, belief_grid, pc, mdp, res, cutoffs>>

\* the grid cell, line 155 and direct calls of nearest_idx in float64
Spec64 == InitAny /\ [][Linspace64 \/ ProbHalfIdx64 \/ CallNearestIdx64]_vars

\* the buffer writes of tiger_mdp taken one group of assignments at a
\* time, in program order, on buffers that start as np.empty leaves them;
\* probe.written records which group wrote which slot (0-based)
WriteBlock ==
    /\ pc = "built"
    /\ probe.fn \in {"none", "writes"}
    /\ probe.n < num_actions + 1
    /\ \E junk \in (IF probe.fn = "none" THEN Junk ELSE {probe.junk}) :
       \E k \in {probe.n + 1} :
       \E sl \in {block_slice(Len(belief_grid), k)} :
       \E vals \in {block_values(belief_grid, k)} :
       \E old \in {IF probe.fn = "none"
                   THEN [data |-> empty(Len(belief_grid) * (num_actions + 1), junk.data),
                         row |-> empty(Len(belief_grid) * (num_actions + 1), junk.idx),
                         col |-> empty(Len(belief_grid) * (num_actions + 1), junk.idx)]
                   ELSE [data |-> probe.ret.data,
                         row |-> probe.ret.row,
                         col |-> probe.ret.col]} :
          probe' =
            [probe EXCEPT
               !.fn = "writes", !.outcome = "returned",
               !.grid = belief_grid, !.junk = junk, !.n = k,
               !.written = @ \cup {<<k, slot>> : slot \in sl[1]..(sl[2] - 1)},
               !.ret = [NoMdp EXCEPT
                  !.data = SetSlice(old.data, sl[1], sl[2], vals.data),
                  !.row = SetSlice(old.row, sl[1], sl[2], vals.row),
                  !.col = SetSlice(old.col, sl[1], sl[2], vals.col)]]
    /\ UNCHANGED <<harness, belief_grid, pc, mdp, res, cutoffs>>

\* Q = sparse.coo_matrix(...); Q.sum_duplicates() on the buffers once the
\* last group of assignments is done
BuildOperator ==
    /\ pc = "built"
    /\ probe.fn = "writes"
    /\ probe.n = num_actions + 1
    /\ probe' = [probe EXCEPT
                    !.fn = "operator",
                    !.ret.Q = sum_duplicates(coo_matrix(probe.ret.data,
                                                        probe.ret.row,
                                                        probe.ret.col))]
    /\ UNCHANGED <<harness, belief_grid, pc, mdp, res, cutoffs>>

\* tiger_mdp and its buffer writes taken group by group
SpecWrites == Init /\ [][TigerMdp \/ WriteBlock \/ BuildOperator]_vars

-----------------------------------------------------------------------------
(* Properties.                                                             *)

Built == pc # "grid"
G == Len(belief_grid)
Listen == 0
OpenLeft == 1
OpenRight == 2

\* positions of the merged operator that lie in the 0-based row i
RowEntries(Q, i) == {k \in 1..Len(Q.data) : Q.row[k] = i}

\* the sum of data over the positions in S
SumOver(data, S) ==
    SumRange([k \in 1..Len(data) |-> IF k \in S THEN data[k] ELSE Zero],
             1, Len(data))

RowSum(Q, i) == SumOver(Q.data, RowEntries(Q, i))

Dist(x, y) == RAbs[RSub[x, y]]

\* C1: after duplicate merging the probabilities in the row of every
\* state-action pair (g, Listen), row 3*g, add up to exactly 1.
C1_ListenRowSumsToOne ==
    Built => \A g \in 0..(G - 1) : RowSum(mdp.Q, 3 * g + Listen) = One

\* a built operator with a Listen row of two entries and one of a single entry
C1_Witness ==
    /\ pc = "built"
    /\ \E g \in 0..(G - 1) : Cardinality(RowEntries(mdp.Q, 3 * g)) = 2
    /\ \E g \in 0..(G - 1) : Cardinality(RowEntries(mdp.Q, 3 * g)) = 1

\* C2: the row of every pair (g, OpenLeft) and (g, OpenRight) holds exactly
\* one entry, of probability 1, whose target is a grid index nearest to 1/2;
\* a grid point that is exactly 1/2 is the target, which on a uniform grid
\* of odd size is index (G-1)/2.
C2_OpenRowsResetToHalf ==
    Built =>
      \A g \in 0..(G - 1) : \A a \in {OpenLeft, OpenRight} :
        LET E == RowEntries(mdp.Q, 3 * g + a)
        IN  /\ Cardinality(E) = 1
            /\ \A k \in E :
                 /\ mdp.Q.data[k] = One
                 /\ mdp.Q.col[k] \in 0..(G - 1)
                 /\ \A j \in 0..(G - 1) :
                      RLeq[Dist(At(belief_grid, mdp.Q.col[k]), Half),
                           Dist(At(belief_grid, j), Half)]
                 /\ \A j \in 0..(G - 1) :
                      At(belief_grid, j) = Half => mdp.Q.col[k] = j
                 /\ (belief_grid \in UniformGrids /\ G % 2 = 1)
                      => mdp.Q.col[k] * 2 = G - 1

\* a built operator on the uniform grid of size 5, whose open rows target
\* index 2 (belief 1/2)
C2_Witness ==
    /\ pc = "built"
    /\ belief_grid \in UniformGrids
    /\ G = 5
    /\ \A k \in RowEntries(mdp.Q, 3 * 4 + OpenRight) : mdp.Q.col[k] = 2

MidPoint(i) == RMul[RAdd[At(belief_grid, i), At(belief_grid, i + 1)], Half]

\* the smallest integer that is >= x
Ceil(x) == -((-x[1]) \div x[2])

Clip(n, lo, hi) == IF n < lo THEN lo ELSE IF n > hi THEN hi ELSE n

\* v/spacing rounded to the nearest integer, a tie going to the lower one
RoundHalfDown(v, n) == Ceil(RSub[RMul[v, FromInt(n)], Half])

\* v/spacing rounded to the nearest integer, a tie going to the upper one
RoundHalfUp(v, n) == -Ceil(RSub[RMul[<<-v[1], v[2]>>, FromInt(n)], Half])

Slots(m, i, c) == {k \in 1..Len(m.data) : m.row[k] = i /\ m.col[k] = c}

\* C7: after merging no two entries share a (row, column) key, every key
\* written as a triplet is present with the sum of all probabilities
\* written for it and no other key is present, and each row holds as many
\* entries as it has distinct targets; before merging a Listen row has
\* exactly two triplets and an OpenLeft/OpenRight row exactly one.
C7_DuplicatesSummed ==
    Built =>
      /\ \A k1, k2 \in 1..Len(mdp.Q.data) :
           (mdp.Q.row[k1] = mdp.Q.row[k2] /\ mdp.Q.col[k1] = mdp.Q.col[k2])
             => k1 = k2
      /\ \A k \in 1..Len(mdp.Q.data) :
           /\ Slots(mdp, mdp.Q.row[k], mdp.Q.col[k]) # {}
           /\ mdp.Q.data[k] =
                SumOver(mdp.data, Slots(mdp, mdp.Q.row[k], mdp.Q.col[k]))
      /\ \A k \in 1..Len(mdp.data) :
           \E q \in 1..Len(mdp.Q.data) :
              mdp.Q.row[q] = mdp.row[k] /\ mdp.Q.col[q] = mdp.col[k]
      /\ \A i \in 0..(3 * G - 1) :
           Cardinality(RowEntries(mdp.Q, i)) =
             Cardinality({mdp.col[k] : k \in {x \in 1..Len(mdp.row) : mdp.row[x] = i}})
      /\ \A g \in 0..(G - 1) :
           /\ Cardinality({k \in 1..Len(mdp.row) : mdp.row[k] = 3 * g + Listen}) = 2
           /\ Cardinality({k \in 1..Len(mdp.row) : mdp.row[k] = 3 * g + OpenLeft}) = 1
           /\ Cardinality({k \in 1..Len(mdp.row) : mdp.row[k] = 3 * g + OpenRight}) = 1

\* a built operator in which two triplets of one Listen row were merged
\* into one entry while another Listen row kept its two entries
C7_Witness ==
    /\ pc = "built"
    /\ \E g \in 0..(G - 1) :
         /\ Cardinality(RowEntries(mdp.Q, 3 * g)) = 1
         /\ \A k \in RowEntries(mdp.Q, 3 * g) :
              Cardinality(Slots(mdp, 3 * g, mdp.Q.col[k])) = 2
    /\ \E g \in 0..(G - 1) : Cardinality(RowEntries(mdp.Q, 3 * g)) = 2

\* C8: with b = n/d the belief of grid index g, the flattened reward vector
\* holds -1 at 3g, -100(1-b) + 10b at 3g+1 and 10(1-b) - 100b at 3g+2; on
\* the grid [0, 1/4, 1/2, 3/4, 1] that is 10 for (0, OpenRight), -100 for
\* (4, OpenRight) and -1 for (2, Listen).
C8_RewardVector ==
    Built =>
      /\ Len(mdp.R) = 3 * G
      /\ \A g \in 0..(G - 1) :
           LET n == At(belief_grid, g)[1]
               d == At(belief_grid, g)[2]
           IN  /\ At(mdp.R, 3 * g + Listen) = <<-1, 1>>
               /\ At(mdp.R, 3 * g + OpenLeft) = Rat[-100 * (d - n) + 10 * n, d]
               /\ At(mdp.R, 3 * g + OpenRight) = Rat[10 * (d - n) - 100 * n, d]
      /\ belief_grid = <<Rat[0, 1], Rat[1, 4], Rat[1, 2], Rat[3, 4], Rat[1, 1]>> =>
           /\ At(mdp.R, 3 * 0 + OpenRight) = <<10, 1>>
           /\ At(mdp.R, 3 * 4 + OpenRight) = <<-100, 1>>
           /\ At(mdp.R, 3 * 2 + Listen) = <<-1, 1>>

\* the reward vector built for the grid [0, 1/4, 1/2, 3/4, 1]
C8_Witness ==
    /\ pc = "built"
    /\ belief_grid = <<Rat[0, 1], Rat[1, 4], Rat[1, 2], Rat[3, 4], Rat[1, 1]>>
    /\ At(mdp.R, 3 * 1 + OpenLeft) = Rat[-145, 2]

\* C9: i = 3g + a is a bijection between pairs (g, a) and 0..3G-1, with
\* s_indices[i] = i div 3 and a_indices[i] = i mod 3, and the triplets
\* written for action a at grid index g (slots g and G+g for Listen, 2G+g
\* for OpenLeft, 3G+g for OpenRight) carry the source row 3g + a.
C9_LinearIndex ==
    Built =>
      /\ Len(mdp.s_indices) = 3 * G /\ Len(mdp.a_indices) = 3 * G
      /\ \A i \in 0..(3 * G - 1) :
           /\ At(mdp.s_indices, i) = i \div 3
           /\ At(mdp.a_indices, i) = i % 3
           /\ 3 * At(mdp.s_indices, i) + At(mdp.a_indices, i) = i
      /\ \A g \in 0..(G - 1) : \A a \in 0..2 :
           /\ 3 * g + a \in 0..(3 * G - 1)
           /\ At(mdp.s_indices, 3 * g + a) = g
           /\ At(mdp.a_indices, 3 * g + a) = a
      /\ \A g \in 0..(G - 1) :
           /\ At(mdp.row, g) = 3 * g + Listen
           /\ At(mdp.row, G + g) = 3 * g + Listen
           /\ At(mdp.row, 2 * G + g) = 3 * g + OpenLeft
           /\ At(mdp.row, 3 * G + g) = 3 * g + OpenRight

\* a built descriptor on a grid of at least four points
C9_Witness ==
    /\ pc = "built"
    /\ G >= 4
    /\ At(mdp.s_indices, 3 * G - 1) = G - 1
    /\ At(mdp.row, 4 * G - 1) = 3 * G - 1

Solved == pc \in {"solved", "plotted", "plot_error"}

\* sigma is lowAct on a non-empty range of the lowest indices, Listen on a
\* non-empty middle range and highAct on a non-empty range of the highest
\* indices: a step function with exactly two crossings
StepPolicy(sigma, lowAct, highAct) ==
    \E lo, hi \in 1..(Len(sigma) - 1) :
       /\ lo < hi
       /\ \A g \in 0..(Len(sigma) - 1) :
            At(sigma, g) = IF g < lo THEN lowAct
                           ELSE IF g < hi THEN Listen ELSE highAct

Interior(x) == IsFinite(x) /\ RLess[Zero, x] /\ RLess[x, One]

DefaultNoises == probe.pL = DefaultNoise /\ probe.pR = DefaultNoise

C12_UndefinedUpdateReported ==
    /\ probe.fn = "bayes" =>
         /\ (probe.TL = Zero \/ probe.TR = Zero) => probe.outcome = "UndefinedUpdate"
         /\ probe.outcome = "returned" =>
               IsFinite(probe.postTL) /\ IsFinite(probe.postTR)
    /\ Built =>
         \A g \in 0..(G - 1) :
            /\ IsFinite(bayes_update_TL(At(belief_grid, g), DefaultNoise, DefaultNoise))
            /\ IsFinite(bayes_update_TR(At(belief_grid, g), DefaultNoise, DefaultNoise))

\* C13: with a grid of fewer than 2 points the pipeline fails with the
\* error outcome InvalidConfiguration: the grid construction returns no
\* grid, tiger_mdp no descriptor and nearest_idx no index.
C13_SmallGridRejected ==
    (pc # "start" /\ G < 2) =>
      /\ pc = "InvalidConfiguration"
      /\ mdp = NoMdp
      /\ probe.fn # "nearest_idx"

\* C14: tiger_mdp with a discount factor outside (0,1) fails with the error
\* outcome InvalidConfiguration before any reward or transition data is
\* handed to the solver: every descriptor handed over has 0 < beta < 1.
C14_DiscountRejected ==
    /\ mdp # NoMdp => (RLess[Zero, mdp.beta] /\ RLess[mdp.beta, One])
    /\ pc \notin {"built", "solver_error"} => mdp = NoMdp

\* every (representation, method) pair of the harness has been solved
AllSolved(h) ==
    Len(h.methods) > 0 /\ Len(h.solves) = Len(labels) * Len(h.methods)

\* the solved results disagree: policy-iteration policies differ between
\* representations, or another method's policy differs from the
\* policy-iteration policy of the same representation, or the iteration
\* counts of one method differ between representations
Disagree(h) ==
    \/ \E i, j \in 1..Len(labels) :
          Result(h, i, PiPos(h)).sigma # Result(h, j, PiPos(h)).sigma
    \/ \E i \in 1..Len(labels), m \in 1..Len(h.methods) :
          Result(h, i, m).sigma # Result(h, i, PiPos(h)).sigma
    \/ \E i, j \in 1..Len(labels), m \in 1..Len(h.methods) :
          Result(h, i, m).num_iter # Result(h, j, m).num_iter

\* C15: compare_performance treats disagreement as a failure: when the
\* solved results disagree, it stops with an assertion failure and never
\* prints the report or enters the timing phase.
C15_DisagreementStopsHarness ==
    (AllSolved(harness) /\ Disagree(harness)) =>
      /\ harness.pc \in {"report", "AssertionError"}
      /\ harness.timed = <<>>

\* the (label, method) pair has been solved exactly cnt times so far
SolvedTimes(h, i, m, cnt) ==
    Cardinality({n \in 1..Len(h.solves) :
                   h.solves[n].label = labels[i]
                   /\ h.solves[n].method = h.methods[m]}) = cnt

\* C16: the three descriptors are generated from the same num_states,
\* num_actions, beta, k and random_state and differ only in the flags
\* (sparse, sa_pair); the methods are vi, pi, mpi, or pi, mpi when
\* suppress_vi is set; max_iter = 1000 is set on all three descriptors
\* before the first solve; every solve uses k = 20; and before any
\* comparison is printed every (representation, method) pair has been
\* solved exactly once.
C16_SameMdpSolvedOnce ==
    harness.pc # "idle" =>
      /\ Len(harness.ddps) = 3
      /\ \A i \in 1..3 :
           /\ harness.ddps[i].num_states = harness.args.num_states
           /\ harness.ddps[i].num_actions = harness.args.num_actions
           /\ harness.ddps[i].beta = harness.args.beta
           /\ harness.ddps[i].k = harness.args.k
           /\ harness.ddps[i].random_state = harness.args.random_state
      /\ <<harness.ddps[1].sparse, harness.ddps[1].sa_pair>> = <<FALSE, FALSE>>
      /\ <<harness.ddps[2].sparse, harness.ddps[2].sa_pair>> = <<FALSE, TRUE>>
      /\ <<harness.ddps[3].sparse, harness.ddps[3].sa_pair>> = <<TRUE, TRUE>>
      /\ harness.methods = IF harness.args.suppress_vi
                           THEN <<"pi", "mpi">> ELSE <<"vi", "pi", "mpi">>
      /\ harness.solves # <<>> =>
           \A i \in 1..3 : harness.ddps[i].max_iter = <<1000>>
      /\ \A n \in 1..Len(harness.solves) :
           /\ harness.solves[n].k = 20
           /\ harness.solves[n].max_iter = <<1000>>
      /\ \A i \in 1..3, m \in 1..Len(harness.methods) :
           \/ SolvedTimes(harness, i, m, 0)
           \/ SolvedTimes(harness, i, m, 1)
      /\ harness.out # <<>> =>
           \A i \in 1..3, m \in 1..Len(harness.methods) :
              SolvedTimes(harness, i, m, 1)

\* a call with suppress_vi set has printed its report after six solves
C16_Witness ==
    /\ harness.pc = "timing"
    /\ harness.args.suppress_vi
    /\ harness.out # <<>>
    /\ Len(harness.solves) = 6
    /\ \A n \in 1..6 : harness.solves[n].method \in {"pi", "mpi"}

\* C17: at a grid index g whose belief is 0 or 1 (the two ends of the
\* notebook's grid) both Bayesian updates return the prior, the heard-left
\* and the heard-right triplet of the Listen row both target g, and after
\* merging the Listen row of g is the single entry g -> g of probability
\* prob_TL + prob_TR = 1.
C17_ExtremePointsSelfLoop ==
    Built =>
      \A g \in {0, G - 1} :
        At(belief_grid, g) \in {Zero, One} =>
          /\ bayes_update_TL(At(belief_grid, g), DefaultNoise, DefaultNoise)
                = At(belief_grid, g)
          /\ bayes_update_TR(At(belief_grid, g), DefaultNoise, DefaultNoise)
                = At(belief_grid, g)
          /\ At(mdp.col, g) = g
          /\ At(mdp.col, G + g) = g
          /\ RAdd[At(mdp.data, g), At(mdp.data, G + g)] = One
          /\ Cardinality(RowEntries(mdp.Q, 3 * g + Listen)) = 1
          /\ \A k \in RowEntries(mdp.Q, 3 * g + Listen) :
                mdp.Q.col[k] = g /\ mdp.Q.data[k] = One

\* a built operator on a grid from belief 0 to belief 1 with interior
\* points, whose two end rows were written as 17/20 and 3/20
C17_Witness ==
    /\ pc = "built"
    /\ G >= 3
    /\ At(belief_grid, 0) = Zero
    /\ At(belief_grid, G - 1) = One
    /\ At(mdp.data, 0) = Rat[17, 20] /\ At(mdp.data, G) = Rat[3, 20]
    /\ At(mdp.data, G - 1) = Rat[3, 20] /\ At(mdp.data, 2 * G - 1) = Rat[17, 20]
    /\ \A k \in RowEntries(mdp.Q, 3 * (G - 1) + Listen) : mdp.Q.col[k] = G - 1

\* the parts of a descriptor that reach the solver
Descriptor(m) == <<m.R, m.Q, m.beta, m.s_indices, m.a_indices>>

IndexSlots(g) == {g + 1, G + g + 1, 2 * G + g + 1, 3 * G + g + 1}

\* C19: the four triplets of a grid index are a function of the grid and the
\* index alone and lie in slots that no other index uses; so when the
\* indices are assembled one at a time in any order, the slots of the
\* indices written hold exactly what tiger_mdp wrote there, the slots of
\* the others are untouched, and merging the assembled buffers gives the
\* transition operator of tiger_mdp.
C19_OrderIndependentAssembly ==
    probe.fn \in {"assemble", "assembled"} =>
      /\ \A g, h \in 0..(G - 1) : g # h => IndexSlots(g) \cap IndexSlots(h) = {}
      /\ \A g \in 0..(G - 1) : \A k \in IndexSlots(g) :
           IF g \in probe.written
           THEN /\ probe.ret.data[k] = mdp.data[k]
                /\ probe.ret.row[k] = mdp.row[k]
                /\ probe.ret.col[k] = mdp.col[k]
           ELSE /\ probe.ret.data[k] = UninitData
                /\ probe.ret.row[k] = UninitIdx
                /\ probe.ret.col[k] = UninitIdx
      /\ probe.fn = "assembled" => probe.ret.Q = mdp.Q

\* buffers assembled with grid index 0 written last, on a grid of at least
\* four points, and merged into an operator with fewer entries than
\* triplets
C19_Witness ==
    /\ probe.fn = "assembled"
    /\ G >= 4
    /\ probe.idx = 0
    /\ Len(probe.ret.Q.data) < 4 * G
    /\ Len(probe.ret.Q.data) > 3 * G

\* the belief x lies in [0,1]
InUnit(x) == IsFinite(x) /\ RLeq[Zero, x] /\ RLeq[x, One]

\* C20: on every grid of at least two points in [0,1] (the uniform grids
\* among them) and with the default noise, the posteriors of every grid
\* belief under both signals lie in [0,1], nearest_idx maps them into
\* 0..G-1, and every column index that tiger_mdp stores, before and after
\* merging, lies in 0..G-1.
C20_ColumnsInRange ==
    Built =>
      /\ \A g \in 0..(G - 1) :
           LET postTL == bayes_update_TL(At(belief_grid, g), DefaultNoise, DefaultNoise)
               postTR == bayes_update_TR(At(belief_grid, g), DefaultNoise, DefaultNoise)
           IN  /\ InUnit(postTL) /\ InUnit(postTR)
               /\ At(mdp.col, g) = nearest_idx(belief_grid, postTL)
               /\ At(mdp.col, G + g) = nearest_idx(belief_grid, postTR)
      /\ Len(mdp.col) = 4 * G
      /\ \A k \in 1..Len(mdp.col) : mdp.col[k] \in 0..(G - 1)
      /\ \A k \in 1..Len(mdp.Q.col) : mdp.Q.col[k] \in 0..(G - 1)

\* a built operator on a uniform grid of at least four points in which the
\* heard-right posterior of index 1 resolves to a higher index and the
\* heard-left posterior of index G-2 to a lower one
C20_Witness ==
    /\ pc = "built"
    /\ belief_grid \in UniformGrids
    /\ G >= 4
    /\ At(mdp.col, G + 1) > 1
    /\ At(mdp.col, G - 2) < G - 2

\* the (column, probability) pairs written as triplets for the 0-based row i
RowTriplets(m, i) ==
    {<<m.col[k], m.data[k]>> : k \in {x \in 1..Len(m.row) : m.row[x] = i}}

\* the (column, probability) pairs of the merged operator in the row i
RowMerged(Q, i) == {<<Q.col[k], Q.data[k]>> : k \in RowEntries(Q, i)}

\* C21: on every uniform grid with G >= 3 and the default noise the two
\* Listen targets of every interior index g (0 < g < G-1) differ; merging
\* changes the Listen rows of g = 0 and g = G-1 and no other row, and the
\* merged operator holds exactly 2(G-2) + 2 + 2G entries.
C21_InteriorListenTargetsDistinct ==
    (Built /\ belief_grid \in UniformGrids /\ G >= 3) =>
      /\ \A g \in 1..(G - 2) :
           /\ At(mdp.col, g) # At(mdp.col, G + g)
           /\ At(mdp.col, g) =
                nearest_idx(belief_grid,
                    bayes_update_TL(At(belief_grid, g), DefaultNoise, DefaultNoise))
           /\ At(mdp.col, G + g) =
                nearest_idx(belief_grid,
                    bayes_update_TR(At(belief_grid, g), DefaultNoise, DefaultNoise))
           /\ Cardinality(RowEntries(mdp.Q, 3 * g + Listen)) = 2
      /\ \A i \in 0..(3 * G - 1) :
           (RowMerged(mdp.Q, i) # RowTriplets(mdp, i))
             <=> i \in {3 * 0 + Listen, 3 * (G - 1) + Listen}
      /\ \A g \in {0, G - 1} : Cardinality(RowEntries(mdp.Q, 3 * g + Listen)) = 1
      /\ Len(mdp.Q.data) = 2 * (G - 2) + 2 + 2 * G

\* a built operator on the uniform grid of five points: 18 entries, the
\* Listen targets of the interior index 2 on either side of it
C21_Witness ==
    /\ pc = "built"
    /\ belief_grid \in UniformGrids
    /\ G = 5
    /\ At(mdp.col, 2) < At(mdp.col, G + 2)
    /\ Len(mdp.Q.data) = 18

\* C22: with the default noise the Listen targets of every grid index g
\* bracket it: the heard-left posterior is at most the belief and resolves
\* to an index <= g, the heard-right posterior is at least the belief and
\* resolves to an index >= g, in the triplets and in the merged operator.
C22_ListenTargetsBracketSource ==
    Built =>
      \A g \in 0..(G - 1) :
        LET b == At(belief_grid, g)
            postTL == bayes_update_TL(b, DefaultNoise, DefaultNoise)
            postTR == bayes_update_TR(b, DefaultNoise, DefaultNoise)
        IN  /\ RLeq[postTL, b] /\ RLeq[b, postTR]
            /\ At(mdp.col, g) = nearest_idx(belief_grid, postTL)
            /\ At(mdp.col, G + g) = nearest_idx(belief_grid, postTR)
            /\ At(mdp.col, g) <= g
            /\ g <= At(mdp.col, G + g)
            /\ \E k \in RowEntries(mdp.Q, 3 * g + Listen) : mdp.Q.col[k] <= g
            /\ \E k \in RowEntries(mdp.Q, 3 * g + Listen) : mdp.Q.col[k] >= g

\* a built operator with an index whose heard-left target lies strictly
\* below it and whose heard-right target lies strictly above it, while
\* both targets of the first and of the last index are the index itself
C22_Witness ==
    /\ pc = "built"
    /\ \E g \in 0..(G - 1) :
         At(mdp.col, g) < g /\ g < At(mdp.col, G + g)
    /\ \A g \in {0, G - 1} :
         At(mdp.col, g) = g /\ At(mdp.col, G + g) = g

\* the exact distance of the double x from 1/2
DistHalf64(x) == IF BLess[x, Half64] THEN BSub[Half64, x] ELSE BSub[x, Half64]

\* C23 as stated: on every uniform grid with G >= 2 the reset target of
\* tiger_mdp equals nearest_idx(grid, 1/2), and on a grid of even size both
\* are the lower index G/2 - 1.
C23_ResetTargetIsNearestIdx ==
    (pc = "half64" /\ G >= 2) =>
      /\ mdp.prob_half_idx = nearest_idx64(belief_grid, Half64)
      /\ G % 2 = 0 =>
           /\ mdp.prob_half_idx = G \div 2 - 1
           /\ nearest_idx64(belief_grid, Half64) = G \div 2 - 1

\* C23 amended: on a uniform grid of odd size the reset target and
\* nearest_idx(grid, 1/2) are both (G-1)/2. On a grid of even size each of
\* them is G/2 - 1 or G/2 and the reset target is not below
\* nearest_idx(grid, 1/2): the float64 grid values on the two sides of 1/2
\* are not equally far from it, the reset target is the one that is
\* nearer, while the rounded midpoint decides nearest_idx. They agree on
\* G/2 - 1 for G = 2 and G = 6 and differ for G = 4, where the reset target
\* is 2 and nearest_idx(grid, 1/2) is 1.
C23_ResetTargetAtOrAboveNearestIdx ==
    (pc = "half64" /\ G >= 2) =>
      \E h \in {mdp.prob_half_idx} : \E n \in {nearest_idx64(belief_grid, Half64)} :
        /\ G % 2 = 1 => (h = (G - 1) \div 2 /\ n = (G - 1) \div 2)
        /\ G % 2 = 0 =>
             /\ h \in {G \div 2 - 1, G \div 2}
             /\ n \in {G \div 2 - 1, G \div 2}
             /\ n <= h
        /\ G \in {2, 6} => (h = G \div 2 - 1 /\ n = G \div 2 - 1)
        /\ G = 4 => (h = 2 /\ n = 1)
        /\ \A j \in 0..(G - 1) :
             ~BLess[DistHalf64(At(belief_grid, j)), DistHalf64(At(belief_grid, h))]
        /\ \A j \in 0..(h - 1) :
             BLess[DistHalf64(At(belief_grid, h)), DistHalf64(At(belief_grid, j))]

\* the grid of four points after line 155 gave the reset target 2 and the
\* call nearest_idx(belief_grid, 1/2) returned 1
C23_Witness ==
    /\ pc = "half64"
    /\ G = 4
    /\ mdp.prob_half_idx = 2
    /\ probe.fn = "nearest_idx"
    /\ probe.v = Half64
    /\ probe.idx = 1

\* C24: for every grid index g the rows of (g, OpenLeft) and (g, OpenRight)
\* are identical, and the reward of OpenLeft exceeds that of OpenRight
\* exactly when grid[g] > 1/2, the two being equal exactly at 1/2; hence
\* for every value function the action values of the two differ by the
\* difference of the rewards: below 1/2 OpenLeft is never strictly
\* preferred to OpenRight and the greedy policy never takes it, above 1/2
\* the same with the two exchanged.
C24_OpenActionsDifferByReward ==
    Built =>
      /\ \A g \in 0..(G - 1) :
           \E b \in {At(belief_grid, g)} :
           \E rL \in {At(mdp.R, 3 * g + OpenLeft)} :
           \E rR \in {At(mdp.R, 3 * g + OpenRight)} :
              /\ RowMerged(mdp.Q, 3 * g + OpenLeft) = RowMerged(mdp.Q, 3 * g + OpenRight)
              /\ RLess[rR, rL] <=> RLess[Half, b]
              /\ RLess[rL, rR] <=> RLess[b, Half]
              /\ (rL = rR) <=> (b = Half)
      /\ Solved =>
           \E vals \in {ActionValues(mdp, res.v)} :
             \A g \in 0..(G - 1) :
               \E b \in {At(belief_grid, g)} :
               \E qL \in {At(vals, 3 * g + OpenLeft)} :
               \E qR \in {At(vals, 3 * g + OpenRight)} :
                  /\ RSub[qL, qR] =
                       RSub[At(mdp.R, 3 * g + OpenLeft), At(mdp.R, 3 * g + OpenRight)]
                  /\ RLess[b, Half] =>
                       (~RLess[qR, qL] /\ At(res.sigma, g) # OpenLeft)
                  /\ RLess[Half, b] =>
                       (~RLess[qL, qR] /\ At(res.sigma, g) # OpenRight)

\* a solved problem whose policy opens the right door at a belief below
\* 1/2 and the left door at a belief above 1/2, on a grid that holds 1/2
C24_Witness ==
    /\ pc = "solved"
    /\ \E g \in 0..(G - 1) :
         RLess[At(belief_grid, g), Half] /\ At(res.sigma, g) = OpenRight
    /\ \E g \in 0..(G - 1) :
         RLess[Half, At(belief_grid, g)] /\ At(res.sigma, g) = OpenLeft
    /\ \E g \in 0..(G - 1) :
         At(belief_grid, g) = Half
           /\ At(mdp.R, 3 * g + OpenLeft) = At(mdp.R, 3 * g + OpenRight)

WritersOf(slot) == {k \in 1..(num_actions + 1) : <<k, slot>> \in probe.written}

\* C26: the buffers data, row and col have the length 4G; the four groups
\* of assignments write the slots [0,G), [G,2G), [2G,3G) and [3G,4G), so no
\* slot is written twice, a slot not yet written holds what np.empty left
\* there, and after the fourth group every slot has been written exactly
\* once; the buffers handed to coo_matrix and the merged operator then hold
\* no uninitialised value and are those of tiger_mdp.
C26_BuffersCoveredOnce ==
    /\ (pc = "built" /\ probe.fn \in {"writes", "operator"}) =>
         /\ Len(probe.ret.data) = 4 * G
         /\ Len(probe.ret.row) = 4 * G
         /\ Len(probe.ret.col) = 4 * G
         /\ \A w \in probe.written :
              /\ w[1] \in 1..probe.n
              /\ w[2] \in ((w[1] - 1) * G)..(w[1] * G - 1)
         /\ \A slot \in 0..(4 * G - 1) :
              /\ Cardinality(WritersOf(slot)) <= 1
              /\ WritersOf(slot) # {} <=> slot < probe.n * G
              /\ WritersOf(slot) = {} =>
                   /\ At(probe.ret.data, slot) = probe.junk.data
                   /\ At(probe.ret.row, slot) = probe.junk.idx
                   /\ At(probe.ret.col, slot) = probe.junk.idx
         /\ probe.n = num_actions + 1 =>
              /\ \A slot \in 0..(4 * G - 1) : Cardinality(WritersOf(slot)) = 1
              /\ probe.ret.data = mdp.data
              /\ probe.ret.row = mdp.row
              /\ probe.ret.col = mdp.col
         /\ probe.fn = "operator" => probe.ret.Q = mdp.Q
    /\ pc = "built" =>
         /\ Len(mdp.data) = 4 * G
         /\ \A k \in 1..Len(mdp.data) :
              /\ mdp.data[k] # UninitData
              /\ mdp.row[k] # UninitIdx
              /\ mdp.col[k] # UninitIdx
         /\ \A k \in 1..Len(mdp.Q.data) :
              /\ mdp.Q.data[k] # UninitData
              /\ mdp.Q.row[k] # UninitIdx
              /\ mdp.Q.col[k] # UninitIdx

\* the operator built from buffers that np.empty had handed out filled
\* with ones, after each of the 4G slots was written by one group
C26_Witness ==
    /\ pc = "built"
    /\ probe.fn = "operator"
    /\ probe.junk = [data |-> One, idx |-> 0]
    /\ G >= 3
    /\ Cardinality(probe.written) = 4 * G
    /\ \A slot \in 0..(4 * G - 1) : Cardinality(WritersOf(slot)) = 1

=============================================================================
